---- MODULE Spec2Model ----
(***************************************************************************)
(* Model of the map export of leaflet-headless (src/src/export-image.ts):  *)
(* mapToCanvas composites the drawable elements of the map container onto  *)
(* a fresh canvas in DOM order and then paints the popups on top.          *)
(*                                                                         *)
(* One action is one synchronous run of the code between two suspension    *)
(* points (the await of loadImageSource, the await of drawPopupOverlays).  *)
(***************************************************************************)
EXTENDS Integers, Sequences, FiniteSets, TLC

VARIABLES
    dom,        \* the elements of the map container, in document order
    viewport,   \* what map.getSize() returns now
    circles,    \* the renders whose temporary circle is on the map
    popupObjs,  \* the popup objects, by id
    mapLayers,  \* ids of the popups in map._layers, in Object.values order
    mapPopup,   \* map._popup: a popup id, or 0
    rs,         \* per call of mapToCanvas: its local variables and position
    fetches,    \* per element: number of loadImageSource calls made for it
    overlap,    \* a call of mapToCanvas started while another was in flight
    exports,    \* per call made through exportMap: its callback and promise chain
    img,        \* a HeadlessImage: _src, its handlers, its loads, the handler calls
    files,      \* the paths of the files that exist
    fonts,      \* fonts.ts: fontsRegistered, registeredFonts, and what was done
    assets      \* the font assets installed and how GlobalFonts behaves

\* the variables of the map and of the calls of mapToCanvas
mapVars == <<dom, viewport, circles, popupObjs, mapLayers, mapPopup, rs,
             fetches, overlap>>

\* the variables of the HeadlessImage
imageVars == <<img, files>>

\* the variables of fonts.ts
fontVars == <<fonts, assets>>

vars == <<mapVars, exports, imageVars, fontVars>>

(***************************************************************************)
(* Bounds of the model.                                                    *)
(***************************************************************************)
MaxLayers == 3
MaxPopups == 2

\* two calls of mapToCanvas on the same map, successive or overlapping
Renders == {1, 2}

\* the longest popup content, in characters and tags
MaxText == 3

\* the most a line of a popup is widened by
MaxDelta == 3

\* the most assignments to the src of a HeadlessImage
MaxAssignments == 2

\* the most calls of ensureDefaultFontsRegistered
MaxCalls == 3

(***************************************************************************)
(* Values.  A JavaScript number is a record so that NaN/undefined can be   *)
(* told from 0; a CSS length or an attribute string keeps its kind.        *)
(***************************************************************************)
NaN == [nan |-> TRUE, n |-> 0]
Num(n) == [nan |-> FALSE, n |-> n]
IsFinite(v) == ~v.nan

NoString == [k |-> "", n |-> 0]
Px(n) == [k |-> "px", n |-> n]
Digits(n) == [k |-> "digits", n |-> n]
Auto == [k |-> "auto", n |-> 0]

\* parseFloat / parseInt read a leading number and give NaN otherwise
ParseFloat(s) == IF s.k \in {"px", "digits"} THEN Num(s.n) ELSE NaN
ParseInt(s) == IF s.k \in {"px", "digits"} THEN Num(s.n) ELSE NaN

\* a raster: a native canvas surface or a decoded image; ok = FALSE is a
\* raster that ctx.drawImage refuses (it throws)
NoRaster == [some |-> FALSE, w |-> 0, h |-> 0, from |-> "", ok |-> TRUE]
Raster(w, h, from, ok) == [some |-> TRUE, w |-> w, h |-> h, from |-> from, ok |-> ok]

Sizes == {[x |-> 200, y |-> 100], [x |-> 256, y |-> 256]}

(***************************************************************************)
(* The elements a map container holds.                                     *)
(***************************************************************************)
Element(tag, surface, src, sl, st, ol, ot, w, h, aw, ah) ==
    [tag |-> tag, napiCanvas |-> surface, src |-> src, napiImage |-> NoRaster,
     styleLeft |-> sl, styleTop |-> st, offsetLeft |-> ol, offsetTop |-> ot,
     width |-> w, height |-> h, attrWidth |-> aw, attrHeight |-> ah]

\* a vector canvas far outside the viewport, larger than it
CanvasLayer == Element("canvas", Raster(300, 300, "", TRUE), "",
                       Px(-500), Px(0), Num(0), Num(0), 300, 300, NoString, NoString)
\* a canvas element without a native surface
BareCanvas == Element("canvas", NoRaster, "",
                      NoString, NoString, Num(0), Num(0), 0, 0, NoString, NoString)
\* a canvas whose surface drawImage refuses
BrokenCanvas == Element("canvas", Raster(0, 0, "", FALSE), "",
                        NoString, NoString, Num(0), Num(0), 0, 0, NoString, NoString)
\* a tile image positioned by layout offsets only
TileImage == Element("img", NoRaster, "tile.png",
                     NoString, Auto, Num(7), NaN, 0, 0, NoString, NoString)
\* an img element without src
EmptyImage == Element("img", NoRaster, "",
                      NoString, NoString, Num(0), Num(0), 0, 0, NoString, NoString)
\* any other element of the container (a pane)
Pane == Element("div", NoRaster, "",
                NoString, NoString, Num(0), Num(0), 0, 0, NoString, NoString)

ElementPool == {CanvasLayer, BareCanvas, BrokenCanvas, TileImage, EmptyImage, Pane}

\* the canvas the canvas renderer adds to the overlay pane for a circle
RendererCanvas(ok) == Element("canvas", Raster(256, 256, "", ok), "",
                              NoString, NoString, Num(0), Num(0), 256, 256, NoString, NoString)

SeqsUpTo(S, n) == UNION {[1..k -> S] : k \in 0..n}

(***************************************************************************)
(* Popups.                                                                 *)
(***************************************************************************)
\* hasGetLatLng: typeof popup.getLatLng === 'function'; latlng: it returns one
\* an optional point: popup._getAnchor(), popup.options.offset
NoPoint == [some |-> FALSE, x |-> 0, y |-> 0]
Point(x, y) == [some |-> TRUE, x |-> x, y |-> y]

\* popup._contentNode: its innerHTML (a sequence of characters and tags) and
\* its style.width
NoContentNode == [some |-> FALSE, innerHTML |-> <<>>, styleWidth |-> NoString]
ContentNode(innerHTML, styleWidth) ==
    [some |-> TRUE, innerHTML |-> innerHTML, styleWidth |-> styleWidth]

\* a popup: whether it has getLatLng, whether that returns a position, the
\* layer point map.latLngToLayerPoint gives for it, the anchor of its source
\* layer, options.offset and the content node
Popup(hasGetLatLng, latlng, point, anchor, offset, contentNode) ==
    [hasGetLatLng |-> hasGetLatLng, latlng |-> latlng, point |-> point,
     anchor |-> anchor, offset |-> offset, contentNode |-> contentNode]

\* the content of the quick-start example: 'A<br> b'
QuickStartContent == ContentNode(<<"a", "<br>", " ", "b">>, NoString)

PopupPool ==
    {Popup(TRUE, TRUE, [x |-> 100, y |-> 50], Point(1, -34), Point(0, 7), QuickStartContent),
     Popup(TRUE, FALSE, [x |-> 0, y |-> 0], Point(1, -34), Point(0, 7), QuickStartContent),
     Popup(FALSE, FALSE, [x |-> 0, y |-> 0], NoPoint, NoPoint, NoContentNode)}

(***************************************************************************)
(* The local state of one call of mapToCanvas.                             *)
(***************************************************************************)
IdleRender ==
    [pc |-> "idle", size |-> [x |-> 0, y |-> 0], canvas |-> [width |-> 0, height |-> 0],
     drawableElements |-> <<>>, i |-> 0, tempCircle |-> FALSE, queries |-> 0,
     src |-> "", ops |-> <<>>, log |-> <<>>, err |-> "", errAt |-> 0, pending |-> "",
     layouts |-> <<>>]

InFlight(st) == st.pc \in {"awaitImage", "awaitOverlays"}
Settled(st) == st.pc \in {"resolved", "rejected"}

(***************************************************************************)
(* Canvas allocation and enumeration of the drawable elements.             *)
(***************************************************************************)
\* faulty variant: width and height exchanged
CreateCanvasTransposed(size) == [width |-> size.y, height |-> size.x]

CreateCanvas(size) == [width |-> size.x, height |-> size.y]

RECURSIVE Matching(_, _)
\* indices of the canvas and img elements of d[k..], in document order
Matching(d, k) ==
    IF k > Len(d) THEN <<>>
    ELSE IF d[k].tag \in {"canvas", "img"} THEN <<k>> \o Matching(d, k + 1)
    ELSE Matching(d, k + 1)

RECURSIVE Reverse(_)
Reverse(q) == IF q = <<>> THEN <<>> ELSE Append(Reverse(Tail(q)), Head(q))

\* faulty variant: the elements enumerated last to first
QuerySelectorAllReversed(d) == Reverse(Matching(d, 1))

QuerySelectorAll(d) == Matching(d, 1)

(***************************************************************************)
(* Position and size of one element's drawing.                             *)
(***************************************************************************)
\* faulty variant: parsedLeft || offsetLeft, a parsed 0 counting as missing
PositionXZeroAsMissing(element) ==
    LET styleLeft == element.styleLeft
        parsedLeft == IF styleLeft.k # "" THEN ParseFloat(styleLeft) ELSE NaN
    IN  IF IsFinite(parsedLeft) /\ parsedLeft.n # 0 THEN parsedLeft.n
        ELSE IF IsFinite(element.offsetLeft) THEN element.offsetLeft.n
        ELSE 0

PositionX(element) ==
    LET styleLeft == element.styleLeft
        parsedLeft == IF styleLeft.k # "" THEN ParseFloat(styleLeft) ELSE NaN
    IN  IF IsFinite(parsedLeft) THEN parsedLeft.n
        ELSE IF IsFinite(element.offsetLeft) THEN element.offsetLeft.n
        ELSE 0

PositionY(element) ==
    LET styleTop == element.styleTop
        parsedTop == IF styleTop.k # "" THEN ParseFloat(styleTop) ELSE NaN
    IN  IF IsFinite(parsedTop) THEN parsedTop.n
        ELSE IF IsFinite(element.offsetTop) THEN element.offsetTop.n
        ELSE 0

\* a || b || c over numbers: the first that is neither 0 nor NaN, else c
DrawWidth(imgElement, image) ==
    LET attr == ParseInt(IF imgElement.attrWidth.k # "" THEN imgElement.attrWidth ELSE Digits(0))
    IN  IF imgElement.width # 0 THEN imgElement.width
        ELSE IF IsFinite(attr) /\ attr.n # 0 THEN attr.n
        ELSE image.w

DrawHeight(imgElement, image) ==
    LET attr == ParseInt(IF imgElement.attrHeight.k # "" THEN imgElement.attrHeight ELSE Digits(0))
    IN  IF imgElement.height # 0 THEN imgElement.height
        ELSE IF IsFinite(attr) /\ attr.n # 0 THEN attr.n
        ELSE image.h

(***************************************************************************)
(* Drawing operations recorded on the render's canvas, warnings, throws.   *)
(***************************************************************************)
DrawOp(op, id, x, y, w, h, from, shadow) ==
    [op |-> op, id |-> id, x |-> x, y |-> y, w |-> w, h |-> h, from |-> from,
     shadow |-> shadow, line |-> 0]

Warn(st, what, id) == [st EXCEPT !.log = Append(@, [what |-> what, id |-> id])]

Throw(st, err, id) == [st EXCEPT !.pc = "rejected", !.err = err, !.errAt = id]

\* ctx.drawImage throws on a source it cannot use
DrawImageThrows(raster) == ~raster.ok

\* ctx.drawImage(napiCanvas, x, y): outside any try
DrawCanvasElement(st, id, element) ==
    IF DrawImageThrows(element.napiCanvas)
    THEN Throw(st, "drawImage", id)
    ELSE [st EXCEPT !.ops = Append(@, DrawOp("blend", id, PositionX(element),
                PositionY(element), element.napiCanvas.w, element.napiCanvas.h,
                element.napiCanvas.from, FALSE))]

\* faulty variant: a canvas without surface rejects the call
RejectCanvasWithoutSurface(st, id) == Throw(st, "unsupportedLayer", id)

SkipCanvasWithoutSurface(st, id) == Warn(st, "noNapiCanvas", id)

SkipImageWithoutSrc(st, id) == Warn(st, "noSrc", id)

\* faulty variant: no catch block around the img branch
OnImageErrorRethrown(st, id) == Throw(st, "loadImageSource", id)

\* the catch block of the img branch
OnImageError(st, id) == Warn(st, "failedToDraw", id)

\* the part of the try block after the image is at hand
DrawImageElement(st, id, imgElement, image) ==
    IF DrawImageThrows(image)
    THEN OnImageError(st, id)
    ELSE [st EXCEPT !.ops = Append(@, DrawOp("blend", id, PositionX(imgElement),
                PositionY(imgElement), DrawWidth(imgElement, image),
                DrawHeight(imgElement, image), image.from, FALSE))]

\* loadImageSource(src) when it succeeds: the decoded tile
Decode(src) == Raster(256, 256, src, TRUE)

\* faulty variant: the decoded image is not kept on the element
StoreImageNowhere(imgElement, image) == imgElement

\* faulty variant: the element keeps a half-size copy of the decoded image
StoreImageHalved(imgElement, image) ==
    [imgElement EXCEPT !.napiImage = Raster(image.w \div 2, image.h \div 2, image.from, image.ok)]

\* if (!existing) imgElement._napiImage = image
StoreImage(imgElement, image) == [imgElement EXCEPT !.napiImage = image]

(***************************************************************************)
(* The for loop over drawableElements, from index k up to the next await   *)
(* (pc = "awaitImage"), a throw (pc = "rejected") or its end ("loopDone"). *)
(***************************************************************************)
RECURSIVE Composite(_, _, _)
Composite(d, st, k) ==
    IF st.pc = "rejected" THEN st
    ELSE IF k > Len(st.drawableElements) THEN [st EXCEPT !.pc = "loopDone"]
    ELSE LET id == st.drawableElements[k]
             element == d[id]
         IN  IF element.tag = "canvas" THEN
                 IF ~element.napiCanvas.some
                 THEN Composite(d, SkipCanvasWithoutSurface(st, id), k + 1)
                 ELSE Composite(d, DrawCanvasElement(st, id, element), k + 1)
             ELSE IF element.tag = "img" THEN
                 IF element.src = ""
                 THEN Composite(d, SkipImageWithoutSrc(st, id), k + 1)
                 ELSE IF element.napiImage.some
                 THEN Composite(d, DrawImageElement(st, id, element, element.napiImage), k + 1)
                 ELSE [st EXCEPT !.pc = "awaitImage", !.i = k, !.src = element.src]
             ELSE Composite(d, st, k + 1)

(***************************************************************************)
(* The temporary circle of an empty map.                                   *)
(***************************************************************************)
\* L.circle(center, ...).addTo(map): a ready map gets the renderer's canvas
AddTempCircle(d, ready, ok) == IF ready THEN Append(d, RendererCanvas(ok)) ELSE d

\* faulty variant: the throw without the remove
EmptySceneFailureKeepingCircle(c, r, st) ==
    [circles |-> c, st |-> Throw(st, "emptyScene", 0)]

\* if (drawableElements.length === 0) { tempCircle.remove(); throw ... }
EmptySceneFailure(c, r, st) ==
    [circles |-> c \ {r}, st |-> Throw(st, "emptyScene", 0)]

\* faulty variant: the circle is left on the map
KeepTempCircle(c, r, st) == c

\* if (tempCircle) tempCircle.remove(), after the loop
RemoveTempCircle(c, r, st) == IF st.tempCircle THEN c \ {r} ELSE c

(***************************************************************************)
(* Popups on top of the composited layers.                                 *)
(***************************************************************************)
HasLayer(layers, id) == \E k \in 1..Len(layers) : layers[k] = id

CollectPopupLayers(layers, popup) ==
    LET first == IF popup # 0 /\ HasLayer(layers, popup) THEN <<popup>> ELSE <<>>
        seen(id) == \E k \in 1..Len(first) : first[k] = id
    IN  first \o SelectSeq(layers, LAMBDA id : ~seen(id))

(***************************************************************************)
(* normalisePopupText: the content's HTML as lines of text.  A text is a   *)
(* sequence of characters; "LF" and "CR" are the newline and the carriage  *)
(* return, "<br>" a line break tag, "<i>" any other tag.                   *)
(***************************************************************************)
Chars == {"a", "b", " ", "LF", "CR", "<br>", "<i>"}

\* rawHtml.replace(/<br\s*\/?>(\s*)/gi, '\n$1')
BrToNewline(html) == [k \in 1..Len(html) |-> IF html[k] = "<br>" THEN "LF" ELSE html[k]]

\* decoder.innerHTML = ...; decoder.textContent: the text without the tags
TextContent(html) == SelectSeq(html, LAMBDA c : c \notin {"<br>", "<i>"})

\* .replace(/\r/g, '')
RemoveCR(text) == SelectSeq(text, LAMBDA c : c # "CR")

RECURSIVE Split(_)
\* text.split('\n'): at least one line
Split(text) ==
    IF text = <<>> THEN << <<>> >>
    ELSE LET rest == Split(Tail(text))
         IN  IF Head(text) = "LF" THEN << <<>> >> \o rest
             ELSE << <<Head(text)>> \o Head(rest) >> \o Tail(rest)

RECURSIVE TrimStart(_)
TrimStart(line) ==
    IF line # <<>> /\ Head(line) = " " THEN TrimStart(Tail(line)) ELSE line

RECURSIVE TrimEnd(_)
TrimEnd(line) ==
    IF line # <<>> /\ line[Len(line)] = " "
    THEN TrimEnd(SubSeq(line, 1, Len(line) - 1)) ELSE line

\* faulty variant: only the leading whitespace is removed
TrimStartOnly(line) == TrimStart(line)

\* line.trim()
Trim(line) == TrimEnd(TrimStart(line))

RECURSIVE CollapseBlank(_, _, _)
\* the loop over lines: an empty line after an empty line is dropped
CollapseBlank(lines, result, k) ==
    IF k > Len(lines) THEN result
    ELSE IF lines[k] = <<>> /\ Len(result) > 0 /\ result[Len(result)] = <<>>
    THEN CollapseBlank(lines, result, k + 1)
    ELSE CollapseBlank(lines, Append(result, lines[k]), k + 1)

NormalisePopupText(contentNode) ==
    IF ~contentNode.some THEN << <<>> >>
    ELSE LET text == RemoveCR(TextContent(BrToNewline(contentNode.innerHTML)))
             split == Split(text)
             lines == [k \in 1..Len(split) |-> Trim(split[k])]
             result == CollapseBlank(lines, <<>>, 1)
         IN  IF Len(lines) = 0 THEN << <<>> >>
             ELSE IF Len(result) > 0 THEN result ELSE << <<>> >>

(***************************************************************************)
(* measurePopupLayout.  Horizontal positions are kept doubled (left2 is    *)
(* twice left, in half pixels) so that boxWidth / 2 is exact.              *)
(***************************************************************************)
BaseFontSize == 14
MinBoxWidth == 40
TipSize == 12
Padding == [left |-> 20, right |-> 24, top |-> 13, bottom |-> 13]

\* Math.round(baseFontSize * 1.35)
LineHeight == (BaseFontSize * 135 + 50) \div 100

Max(a, b) == IF a >= b THEN a ELSE b

RECURSIVE MaxOf(_, _)
\* Math.max(first, ...rest)
MaxOf(first, rest) ==
    IF rest = <<>> THEN first ELSE MaxOf(Max(first, Head(rest)), Tail(rest))

\* ctx.measureText(line).width in the popup font: every character as wide
MeasureText(line) == 7 * Len(line)

\* position.add(anchorPoint).add(optionOffset)
TotalOffset(popup) ==
    LET anchorPoint == IF popup.anchor.some THEN popup.anchor ELSE Point(0, 0)
        optionOffset == IF popup.offset.some THEN popup.offset ELSE Point(0, 0)
    IN  [x |-> popup.point.x + anchorPoint.x + optionOffset.x,
         y |-> popup.point.y + anchorPoint.y + optionOffset.y]

\* contentNode?.style?.width ? parseFloat(contentNode.style.width) : NaN
ExplicitWidth(contentNode) ==
    IF contentNode.some /\ contentNode.styleWidth.k # ""
    THEN ParseFloat(contentNode.styleWidth) ELSE NaN

RECURSIVE ContentWidthSummed(_, _)
\* faulty variant: the measured widths of the lines added up
ContentWidthSummed(measuredWidths, explicitWidth) ==
    IF measuredWidths = <<>> THEN 0
    ELSE Head(measuredWidths) + ContentWidthSummed(Tail(measuredWidths), explicitWidth)

ContentWidth(measuredWidths, explicitWidth) ==
    MaxOf(0, measuredWidths \o <<IF IsFinite(explicitWidth) THEN explicitWidth.n ELSE 0>>)

\* faulty variant: the right padding left out
BoxWidthLeftPadded(contentWidth) == Max(MinBoxWidth, contentWidth + Padding.left)

BoxWidth(contentWidth) == Max(MinBoxWidth, contentWidth + Padding.left + Padding.right)

\* faulty variant: the padding counted once
BoxHeightTopPadded(lineCount) == Max(LineHeight, LineHeight * lineCount) + Padding.top

BoxHeight(lineCount) ==
    Max(LineHeight, LineHeight * lineCount) + Padding.top + Padding.bottom

\* faulty variant: the box centred without the offsets
BoxLeft2Unshifted(popup, boxWidth) == 2 * popup.point.x - boxWidth

\* twice (totalOffset.x - boxWidth / 2)
BoxLeft2(popup, boxWidth) == 2 * TotalOffset(popup).x - boxWidth

\* size.y - totalOffset.y - (boxHeight + tipSize)
BoxTop(popup, size, boxHeight) == size.y - TotalOffset(popup).y - (boxHeight + TipSize)

\* null without getLatLng; map.latLngToLayerPoint throws on a missing latlng
MeasurePopupLayout(popup, size) ==
    IF ~popup.hasGetLatLng THEN [status |-> "null"]
    ELSE IF ~popup.latlng THEN [status |-> "throws"]
    ELSE LET contentLines == NormalisePopupText(popup.contentNode)
             measuredWidths == [k \in 1..Len(contentLines) |-> MeasureText(contentLines[k])]
             explicitWidth == ExplicitWidth(popup.contentNode)
             boxWidth == BoxWidth(ContentWidth(measuredWidths, explicitWidth))
             boxHeight == BoxHeight(Len(contentLines))
         IN  [status |-> "layout",
              left2 |-> BoxLeft2(popup, boxWidth),
              top |-> BoxTop(popup, size, boxHeight),
              width |-> boxWidth, height |-> boxHeight,
              contentLines |-> contentLines, padding |-> Padding,
              lineHeight |-> LineHeight, tipSize |-> TipSize,
              measuredWidths |-> measuredWidths, explicitWidth |-> explicitWidth]

(***************************************************************************)
(* The painter.  The 2D context while a popup is painted: whether a shadow *)
(* is set, the stack of save(), and the operations drawn so far.  The x of *)
(* a popup operation is doubled like left2.                                *)
(***************************************************************************)
FreshCtx == [shadow |-> FALSE, stack |-> <<>>, ops |-> <<>>]

Save(ctx) == [ctx EXCEPT !.stack = Append(@, ctx.shadow)]

SetShadow(ctx) == [ctx EXCEPT !.shadow = TRUE]

\* faulty variant: restore() pops the stack and leaves the settings
RestoreKeepingShadow(ctx) == [ctx EXCEPT !.stack = SubSeq(@, 1, Len(@) - 1)]

Restore(ctx) ==
    [ctx EXCEPT !.shadow = ctx.stack[Len(ctx.stack)],
                !.stack = SubSeq(@, 1, Len(@) - 1)]

\* fill(), stroke() or fillText() under the settings of ctx
Draw(ctx, op, id, x2, y, w, h, line) ==
    [ctx EXCEPT !.ops = Append(@, [DrawOp(op, id, x2, y, w, h, "", ctx.shadow)
                                     EXCEPT !.line = line])]

RECURSIVE FillLines(_, _, _, _, _)
\* for (const line of contentLines) { fillText(line, textX, textY); textY += lineHeight }
FillLines(ctx, id, layout, k, textY) ==
    IF k > Len(layout.contentLines) THEN ctx
    ELSE FillLines(Draw(ctx, "fillText", id, layout.left2 + 2 * layout.padding.left,
                        textY, layout.measuredWidths[k], layout.lineHeight, k),
                   id, layout, k + 1, textY + layout.lineHeight)

\* the drawing operations of one popup, in the order of the code; a tip
\* operation holds the lowest vertex of the tip (x doubled, y), the width of
\* the tip and its depth below the box
PaintPopup(id, layout) ==
    LET tipHalf == layout.tipSize
        tipBaseY == layout.top + layout.height
        tipCenterX2 == layout.left2 + layout.width
        c1 == SetShadow(Save(FreshCtx))
        c2 == Draw(c1, "boxFill", id, layout.left2, layout.top, layout.width, layout.height, 0)
        c3 == Save(Restore(c2))
        c4 == Draw(c3, "tipFill", id, tipCenterX2, tipBaseY + tipHalf * 2, 2 * tipHalf, tipHalf * 2, 0)
        c5 == Draw(c4, "tipStroke", id, tipCenterX2, tipBaseY + tipHalf * 2, 2 * tipHalf, tipHalf * 2, 0)
        c6 == Draw(c5, "boxStroke", id, layout.left2, layout.top, layout.width, layout.height, 0)
        c7 == FillLines(c6, id, layout, 1, layout.top + layout.padding.top)
    IN  Restore(c7).ops

IsCalloutOp(o) == o.op \in {"boxFill", "tipFill", "tipStroke", "boxStroke", "fillText"}

\* faulty variant: the popups drawn before the layers
PaintBelow(layerOps, popupOps) == popupOps \o layerOps

\* what the canvas holds once the popup operations are drawn after the layers
PaintOnTop(layerOps, popupOps) == layerOps \o popupOps

RECURSIVE DrawPopups(_, _, _, _)
\* the for loop of drawPopupOverlays: st.ops collects the popup operations
DrawPopups(st, objs, popupLayers, k) ==
    IF k > Len(popupLayers) THEN st
    ELSE LET id == popupLayers[k]
             layout == MeasurePopupLayout(objs[id], st.size)
         IN  IF layout.status = "null" THEN DrawPopups(st, objs, popupLayers, k + 1)
             ELSE IF layout.status = "throws"
             THEN [st EXCEPT !.pending = "latLngToLayerPoint", !.errAt = id]
             ELSE DrawPopups([st EXCEPT !.ops = @ \o PaintPopup(id, layout),
                                        !.layouts = Append(@, [id |-> id] @@ layout)],
                             objs, popupLayers, k + 1)

\* await drawPopupOverlays(map, ctx, size): it runs to its end (or to its
\* throw) at the call, and mapToCanvas resumes one microtask later
DrawPopupOverlays(st, objs, layers, popup) ==
    LET painted == DrawPopups([st EXCEPT !.ops = <<>>], objs,
                              CollectPopupLayers(layers, popup), 1)
    IN  [painted EXCEPT !.pc = "awaitOverlays",
                        !.ops = PaintOnTop(st.ops, painted.ops)]

(***************************************************************************)
(* exportMap: mapToCanvas(map).then(canvas => callback(null, canvas))      *)
(*                           .catch(err => callback(err)).                 *)
(* A call through exportMap has a callback that returns or throws, the     *)
(* stage of its promise chain ("then": the then reaction is due, "catch":  *)
(* the catch reaction is due, "done"), the rejection the then promise      *)
(* carries to the catch, and the invocations of the callback so far.       *)
(***************************************************************************)
NoExport == [callback |-> "none", stage |-> "done", rejection |-> "", calls |-> <<>>]

ExportWith(callback) ==
    [callback |-> callback, stage |-> "then", rejection |-> "", calls |-> <<>>]

NoCanvas == [width |-> 0, height |-> 0]

\* faulty variant: the canvas is not handed to the callback
OnFulfilledWithoutCanvas(canvas) == [err |-> "", some |-> FALSE, canvas |-> NoCanvas]

\* callback(null, canvas)
OnFulfilled(canvas) == [err |-> "", some |-> TRUE, canvas |-> canvas]

\* callback(err)
OnRejected(err) == [err |-> err, some |-> FALSE, canvas |-> NoCanvas]

\* the then reaction once mapToCanvas has settled as st: the callback is
\* called on fulfilment, and what it throws rejects the then promise; a
\* rejection of mapToCanvas passes through
ThenReaction(e, st) ==
    IF st.pc = "resolved"
    THEN [e EXCEPT !.calls = Append(@, OnFulfilled(st.canvas)),
                   !.rejection = IF e.callback = "throws" THEN "callback" ELSE "",
                   !.stage = "catch"]
    ELSE [e EXCEPT !.rejection = st.err, !.stage = "catch"]

\* the catch reaction: the callback is called with the rejection, if any
CatchReaction(e) ==
    IF e.rejection # ""
    THEN [e EXCEPT !.calls = Append(@, OnRejected(e.rejection)), !.stage = "done"]
    ELSE [e EXCEPT !.stage = "done"]

(***************************************************************************)
(* HeadlessImage (src/unnamed/part_008).  A string is a sequence of parts: *)
(* an optional "file://" or "http://", a path, and an optional "?" with a  *)
(* query after it.                                                         *)
(***************************************************************************)
PathNames == {"/a.png", "/b.png"}

Srcs == {prefix \o <<path>> \o query :
            prefix \in {<<>>, <<"file://">>, <<"http://">>},
            path \in PathNames,
            query \in {<<>>, <<"?", "v=1">>}}

RECURSIVE StripQuerystring(_)
\* url.substring(0, url.indexOf('?')), or url without a '?'
StripQuerystring(url) ==
    IF url = <<>> \/ Head(url) = "?" THEN <<>>
    ELSE <<Head(url)>> \o StripQuerystring(Tail(url))

StartsWith(src, prefix) == src # <<>> /\ Head(src) = prefix

\* new Image() with its handlers assigned: "unset", "returns" or "throws"
NewImage(onload, onerror) ==
    [src |-> <<>>, onload |-> onload, onerror |-> onerror, width |-> 0,
     loads |-> <<>>, events |-> <<>>]

\* loadImage(src) up to its first await: fetch(url), or fs.access(cleanPath)
\* on the path without 'file://' and without query string
BeginLoad(src) ==
    IF StartsWith(src, "http://")
    THEN [src |-> src, stage |-> "fetch", path |-> src, err |-> ""]
    ELSE IF StartsWith(src, "file://")
    THEN [src |-> src, stage |-> "access", path |-> StripQuerystring(Tail(src)), err |-> ""]
    ELSE [src |-> src, stage |-> "access", path |-> StripQuerystring(src), err |-> ""]

\* faulty variant: the setter keeps the path it loads from
StoreCleanSrc(value) == StripQuerystring(value)

\* this._src = value
StoreSrc(value) == value

\* a rejection of loadImage with error err
RejectLoad(i, k, err) == [i EXCEPT !.loads[k].stage = "rejected", !.loads[k].err = err]

\* the buffer of load k is at hand: the image is decoded, width and height
\* are copied and onload, if set, is called inside loadImage
FinishLoad(i, k) ==
    LET sized == [i EXCEPT !.width = 1]
        called == [sized EXCEPT !.events = Append(@, [handler |-> "onload", load |-> k, err |-> ""])]
    IN  IF i.onload = "unset" THEN [sized EXCEPT !.loads[k].stage = "fulfilled"]
        ELSE IF i.onload = "throws" THEN RejectLoad(called, k, "onload")
        ELSE [called EXCEPT !.loads[k].stage = "fulfilled"]

\* the catch of the setter: console.error, then onerror if set
CatchLoad(i, k) ==
    LET called == [i EXCEPT !.events = Append(@, [handler |-> "onerror", load |-> k,
                                                   err |-> i.loads[k].err])]
    IN  [(IF i.onerror = "unset" THEN i ELSE called) EXCEPT !.loads[k].stage = "done"]

(***************************************************************************)
(* fonts.ts.  The process state: fontsRegistered, registeredFonts (the     *)
(* keys family@@path), and for the record the number of calls of           *)
(* ensureDefaultFontsRegistered, of loadSystemFonts and of                 *)
(* resolveFontPaths, the paths resolved, the warnings, and every call of   *)
(* GlobalFonts.registerFromPath with the call of                           *)
(* ensureDefaultFontsRegistered that made it.                              *)
(***************************************************************************)
\* two of the entries of FONT_VARIANTS, in their order
FontVariants == {1, 2}

FallbackFamilies == <<"LeafletNode Sans", "Helvetica Neue", "Helvetica", "Arial">>

NoFonts ==
    [fontsRegistered |-> FALSE, registeredFonts |-> {}, calls |-> 0, systemLoads |-> 0,
     resolves |-> 0, resolved |-> <<>>, offers |-> <<>>, warnings |-> 0]

\* per variant the file @fontsource/noto-sans has for it, whether
\* typeface-noto-sans and the bundled NotoSans-Regular.ttf exist, what
\* loadSystemFonts does, and how a registration fails when it fails
Assets(fontsource, typeface, bundled, systemFonts, failure) ==
    [fontsource |-> fontsource, typeface |-> typeface, bundled |-> bundled,
     systemFonts |-> systemFonts, failure |-> failure]

RECURSIVE FontsourcePaths(_, _)
\* resolveFontsourceVariants: per variant the .woff2, else the .woff
FontsourcePaths(a, v) ==
    IF v \notin FontVariants THEN <<>>
    ELSE (IF a.fontsource[v] = "none" THEN <<>>
          ELSE <<[module |-> "fontsource", variant |-> v, ext |-> a.fontsource[v]]>>)
         \o FontsourcePaths(a, v + 1)

\* resolveFontPaths: the fontsource files, else typeface, else the bundled font
ResolveFontPaths(a) ==
    IF FontsourcePaths(a, 1) # <<>> THEN FontsourcePaths(a, 1)
    ELSE IF a.typeface THEN <<[module |-> "typeface", variant |-> 1, ext |-> "woff"]>>
    ELSE IF a.bundled THEN <<[module |-> "bundled", variant |-> 1, ext |-> "ttf"]>>
    ELSE <<>>

\* faulty variant: the flag is not set
LeaveUnregistered(f) == f

\* fontsRegistered = true
MarkRegistered(f) == [f EXCEPT !.fontsRegistered = TRUE]

\* registerFontFamily(fontPath, family); ok is whether registerFromPath
\* accepts, failure what it does otherwise
RegisterFontFamily(f, fontPath, family, ok, failure) ==
    LET key == [family |-> family, path |-> fontPath]
        offered == [f EXCEPT !.offers = Append(@, [call |-> f.calls, family |-> family,
                                 path |-> fontPath,
                                 outcome |-> IF ok THEN "registered" ELSE failure])]
    IN  IF key \in f.registeredFonts THEN f
        ELSE IF ~ok THEN [offered EXCEPT !.warnings = @ + 1]
        ELSE [offered EXCEPT !.registeredFonts = @ \cup {key}]

RECURSIVE RegisterAll(_, _, _, _, _, _)
\* the two loops of ensureDefaultFontsRegistered, from path p and family n
\* on; refusedPairs are the pairs <<p, n>> that registerFromPath does not accept
RegisterAll(f, fontPaths, p, n, refusedPairs, failure) ==
    IF p > Len(fontPaths) THEN f
    ELSE IF n > Len(FallbackFamilies)
    THEN RegisterAll(f, fontPaths, p + 1, 1, refusedPairs, failure)
    ELSE RegisterAll(RegisterFontFamily(f, fontPaths[p], FallbackFamilies[n],
                                        <<p, n>> \notin refusedPairs, failure),
                     fontPaths, p, n + 1, refusedPairs, failure)

\* ensureDefaultFontsRegistered() in a process where a are the assets
EnsureRegistered(f, a, refusedPairs) ==
    LET called == [f EXCEPT !.calls = @ + 1]
        marked == MarkRegistered(called)
        loaded == IF a.systemFonts = "absent" THEN marked
                  ELSE [marked EXCEPT !.systemLoads = @ + 1,
                                      !.warnings = IF a.systemFonts = "throws" THEN @ + 1 ELSE @]
        fontPaths == ResolveFontPaths(a)
        resolved == [loaded EXCEPT !.resolves = @ + 1, !.resolved = fontPaths]
    IN  IF f.fontsRegistered THEN called
        ELSE IF Len(fontPaths) = 0 THEN [resolved EXCEPT !.warnings = @ + 1]
        ELSE RegisterAll(resolved, fontPaths, 1, 1, refusedPairs, a.failure)

(***************************************************************************)
(* Initial states: a map with some elements in its container and some      *)
(* popups open, no export running.                                         *)
(***************************************************************************)
InitCalls ==
    /\ img = NewImage("unset", "unset")
    /\ files = {}
    /\ fonts = NoFonts
    /\ assets = Assets([v \in FontVariants |-> "none"], FALSE, TRUE, "ok", "refused")
    /\ viewport \in Sizes
    /\ circles = {}
    /\ rs = [r \in Renders |-> IdleRender]
    /\ fetches = [k \in 1..Len(dom) |-> 0]
    /\ overlap = FALSE

\* the calls of mapToCanvas are made directly, not through exportMap
InitExport ==
    /\ InitCalls
    /\ exports = [r \in Renders |-> NoExport]

RECURSIVE SubSeqs(_)
\* the subsequences of q
SubSeqs(q) ==
    IF q = <<>> THEN {<<>>}
    ELSE LET rest == SubSeqs(Tail(q))
         IN  rest \cup {<<Head(q)>> \o t : t \in rest}

\* any scene of up to MaxLayers elements, at most one popup open
Init ==
    /\ dom \in SeqsUpTo(ElementPool, MaxLayers)
    /\ popupObjs \in SeqsUpTo(PopupPool, 1)
    /\ mapLayers = [k \in 1..Len(popupObjs) |-> k]
    /\ mapPopup = 0
    /\ InitExport

\* any popups, of which any are layers of the map and any one is map._popup,
\* over a scene of at most one element
InitPopups ==
    /\ dom \in SeqsUpTo(ElementPool, 1)
    /\ popupObjs \in SeqsUpTo(PopupPool, MaxPopups)
    /\ mapLayers \in SubSeqs([k \in 1..Len(popupObjs) |-> k])
    /\ mapPopup \in 0..Len(popupObjs)
    /\ InitExport

\* a popup at a fixed place over one tile
OnePopup(contentNode) ==
    <<Popup(TRUE, TRUE, [x |-> 100, y |-> 50], NoPoint, NoPoint, contentNode)>>

\* one open popup with any content of up to MaxText characters and tags, or
\* without content node
InitText ==
    /\ dom = <<TileImage>>
    /\ popupObjs \in {OnePopup(NoContentNode)}
                     \cup {OnePopup(ContentNode(html, NoString)) : html \in SeqsUpTo(Chars, MaxText)}
    /\ mapLayers = <<1>>
    /\ mapPopup = 1
    /\ InitExport

\* layer points inside and outside of the viewports of Sizes
Points == {[x |-> 100, y |-> 50], [x |-> 30, y |-> 90], [x |-> -20, y |-> 300]}

\* contents of no, one, two and three lines, with and without style.width
LayoutContents ==
    {NoContentNode}
    \cup {ContentNode(html, width) :
            html \in {<<>>, <<"a">>, <<"a", "b", "<br>", "a">>, <<"a", "<br>", "<br>", "b">>},
            width \in {NoString, Auto, Px(10), Px(51)}}

\* one open popup over one tile: any of the points, with or without the
\* anchor of a marker icon and the default offset of a popup, any content
InitLayout ==
    /\ dom = <<TileImage>>
    /\ popupObjs \in {<<Popup(TRUE, TRUE, point, anchor, offset, node)>> :
                        point \in Points, anchor \in {NoPoint, Point(1, -34)},
                        offset \in {NoPoint, Point(0, 7)}, node \in LayoutContents}
    /\ mapLayers = <<1>>
    /\ mapPopup = 1
    /\ InitExport

\* what style.left and style.top may hold, and offsetLeft and offsetTop
Styles == {NoString, Auto, Px(0), Px(-5)}
Offsets == {NaN, Num(0), Num(7)}

\* one canvas layer or one tile, positioned in any way, and no popup
InitPosition ==
    /\ dom \in {<<[element EXCEPT !.styleLeft = sl, !.styleTop = st,
                                  !.offsetLeft = ol, !.offsetTop = ot]>> :
                    element \in {CanvasLayer, TileImage},
                    sl \in Styles, st \in Styles, ol \in Offsets, ot \in Offsets}
    /\ popupObjs = <<>>
    /\ mapLayers = <<>>
    /\ mapPopup = 0
    /\ InitExport

\* what the width and height properties and attributes of an element may hold
Extents == {0, 150}
ExtentAttrs == {NoString, Digits(64), Auto}

\* one canvas layer or one tile, sized in any way, and no popup
InitSize ==
    /\ dom \in {<<[element EXCEPT !.width = w, !.height = h,
                                  !.attrWidth = aw, !.attrHeight = ah]>> :
                    element \in {CanvasLayer, TileImage},
                    w \in Extents, h \in Extents, aw \in ExtentAttrs, ah \in ExtentAttrs}
    /\ popupObjs = <<>>
    /\ mapLayers = <<>>
    /\ mapPopup = 0
    /\ InitExport

\* two calls of exportMap, each with a callback that returns or that
\* throws, on a map whose export succeeds or fails
InitExportMap ==
    /\ dom \in SeqsUpTo({CanvasLayer, BrokenCanvas, TileImage}, 1)
    /\ popupObjs \in SeqsUpTo(PopupPool, 1)
    /\ mapLayers = [k \in 1..Len(popupObjs) |-> k]
    /\ mapPopup = 0
    /\ InitCalls
    /\ exports \in [Renders -> {ExportWith("returns"), ExportWith("throws")}]

\* a new HeadlessImage with any handlers, any of the files existing, and a
\* map that is not exported
InitImage ==
    /\ img \in {NewImage(onload, onerror) :
                  onload \in {"unset", "returns", "throws"},
                  onerror \in {"unset", "returns"}}
    /\ files \in SUBSET {<<path>> : path \in PathNames}
    /\ dom = <<>>
    /\ popupObjs = <<>>
    /\ mapLayers = <<>>
    /\ mapPopup = 0
    /\ viewport = [x |-> 200, y |-> 100]
    /\ circles = {}
    /\ rs = [r \in Renders |-> IdleRender]
    /\ fetches = <<>>
    /\ overlap = FALSE
    /\ exports = [r \in Renders |-> NoExport]
    /\ fonts = NoFonts
    /\ assets = Assets([v \in FontVariants |-> "none"], FALSE, TRUE, "ok", "refused")

\* a process that has not registered fonts, with any font assets installed
\* and any behaviour of GlobalFonts, beside a map that is not exported
InitFonts ==
    /\ fonts = NoFonts
    /\ assets \in {Assets(fontsource, typeface, bundled, systemFonts, failure) :
                     fontsource \in [FontVariants -> {"woff2", "woff", "none"}],
                     typeface \in BOOLEAN, bundled \in BOOLEAN,
                     systemFonts \in {"absent", "ok", "throws"},
                     failure \in {"refused", "throws"}}
    /\ img = NewImage("unset", "unset")
    /\ files = {}
    /\ dom = <<>>
    /\ popupObjs = <<>>
    /\ mapLayers = <<>>
    /\ mapPopup = 0
    /\ viewport = [x |-> 200, y |-> 100]
    /\ circles = {}
    /\ rs = [r \in Renders |-> IdleRender]
    /\ fetches = <<>>
    /\ overlap = FALSE
    /\ exports = [r \in Renders |-> NoExport]

(***************************************************************************)
(* Actions.                                                                *)
(***************************************************************************)
\* the state of render r and of the circles once the loop has stopped at st
Continue(r, st, c) ==
    IF st.pc = "loopDone"
    THEN /\ circles' = RemoveTempCircle(c, r, st)
         /\ rs' = [rs EXCEPT ![r] = DrawPopupOverlays(st, popupObjs, mapLayers, mapPopup)]
    ELSE /\ circles' = c
         /\ rs' = [rs EXCEPT ![r] = st]

\* mapToCanvas(map) is called: from its first line to its first suspension
Start(r) ==
    /\ rs[r].pc = "idle"
    /\ \A q \in Renders : q < r => rs[q].pc # "idle"
    /\ overlap' = (overlap \/ \E q \in Renders : InFlight(rs[q]))
    /\ \E ready \in BOOLEAN, ok \in BOOLEAN :
        LET size == viewport
            found == QuerySelectorAll(dom)
            empty == Len(found) = 0
            dom1 == IF empty THEN AddTempCircle(dom, ready, ok) ELSE dom
            again == IF empty THEN found \o QuerySelectorAll(dom1) ELSE found
            st == [IdleRender EXCEPT !.size = size, !.canvas = CreateCanvas(size),
                                     !.drawableElements = again, !.tempCircle = empty,
                                     !.queries = IF empty THEN 2 ELSE 1]
            c == IF empty THEN circles \cup {r} ELSE circles
        IN  /\ dom' = dom1
            /\ fetches' = [k \in 1..Len(dom1) |-> IF k <= Len(dom) THEN fetches[k] ELSE 0]
            /\ IF Len(again) = 0
               THEN /\ circles' = EmptySceneFailure(c, r, st).circles
                    /\ rs' = [rs EXCEPT ![r] = EmptySceneFailure(c, r, st).st]
               ELSE Continue(r, Composite(dom1, st, 1), c)
    /\ UNCHANGED <<viewport, popupObjs, mapLayers, mapPopup, exports>>
    /\ UNCHANGED <<imageVars, fontVars>>

\* loadImageSource(src) settles: the rest of the try block, then the loop on
ImageLoaded(r) ==
    /\ rs[r].pc = "awaitImage"
    /\ \E loaded \in BOOLEAN :
        LET st == rs[r]
            id == st.drawableElements[st.i]
            image == Decode(st.src)
            dom1 == IF loaded THEN [dom EXCEPT ![id] = StoreImage(@, image)] ELSE dom
            st1 == IF loaded THEN DrawImageElement(st, id, dom1[id], image)
                   ELSE OnImageError(st, id)
        IN  /\ dom' = dom1
            /\ fetches' = [fetches EXCEPT ![id] = @ + 1]
            /\ Continue(r, Composite(dom1, st1, st.i + 1), circles)
    /\ UNCHANGED <<viewport, popupObjs, mapLayers, mapPopup, overlap, exports>>
    /\ UNCHANGED <<imageVars, fontVars>>

\* mapToCanvas resumes after drawPopupOverlays: return canvas, or its throw
Return(r) ==
    /\ rs[r].pc = "awaitOverlays"
    /\ rs' = [rs EXCEPT ![r] = IF @.pending # "" THEN Throw(@, @.pending, @.errAt)
                                ELSE [@ EXCEPT !.pc = "resolved"]]
    /\ UNCHANGED <<dom, viewport, circles, popupObjs, mapLayers, mapPopup,
                   fetches, overlap, exports>>
    /\ UNCHANGED <<imageVars, fontVars>>

\* map.setSize(...) while an export is in flight
SetSize ==
    /\ \E r \in Renders : InFlight(rs[r])
    /\ \E s \in Sizes : s # viewport /\ viewport' = s
    /\ UNCHANGED <<dom, circles, popupObjs, mapLayers, mapPopup, rs, fetches, overlap,
                   exports>>
    /\ UNCHANGED <<imageVars, fontVars>>

\* the microtask of the then reaction of exportMap
Then(r) ==
    /\ exports[r].callback # "none"
    /\ exports[r].stage = "then"
    /\ Settled(rs[r])
    /\ exports' = [exports EXCEPT ![r] = ThenReaction(@, rs[r])]
    /\ UNCHANGED <<mapVars, imageVars, fontVars>>

\* the microtask of the catch reaction of exportMap
Catch(r) ==
    /\ exports[r].callback # "none"
    /\ exports[r].stage = "catch"
    /\ exports' = [exports EXCEPT ![r] = CatchReaction(@)]
    /\ UNCHANGED <<mapVars, imageVars, fontVars>>

Next ==
    \/ \E r \in Renders : Start(r)
    \/ \E r \in Renders : ImageLoaded(r)
    \/ \E r \in Renders : Return(r)
    \/ SetSize

Spec == Init /\ [][Next]_vars

PopupSpec == InitPopups /\ [][Next]_vars

TextSpec == InitText /\ [][Next]_vars

LayoutSpec == InitLayout /\ [][Next]_vars

PositionSpec == InitPosition /\ [][Next]_vars

SizeSpec == InitSize /\ [][Next]_vars

\* the sources an img element of the map is given
ElementSrcs == {"tile.png", "other.png"}

\* one tile, no popup
InitSrc ==
    /\ dom = <<TileImage>>
    /\ popupObjs = <<>>
    /\ mapLayers = <<>>
    /\ mapPopup = 0
    /\ InitExport

\* element.src = src on an img element of the map (as ImageOverlay.setUrl
\* does): nothing else of the element changes
ChangeSrc(k, src) ==
    /\ k \in 1..Len(dom)
    /\ dom[k].tag = "img"
    /\ src # dom[k].src
    /\ dom' = [dom EXCEPT ![k].src = src]
    /\ UNCHANGED <<viewport, circles, popupObjs, mapLayers, mapPopup, rs, fetches,
                   overlap, exports>>
    /\ UNCHANGED <<imageVars, fontVars>>

NextSrc ==
    \/ Next
    \/ \E k \in 1..MaxLayers, src \in ElementSrcs : ChangeSrc(k, src)

SrcSpec == InitSrc /\ [][NextSrc]_vars

\* ensureDefaultFontsRegistered() is called
EnsureDefaultFontsRegistered ==
    /\ fonts.calls < MaxCalls
    /\ \E refusedPairs \in (IF fonts.fontsRegistered THEN {{}}
                            ELSE SUBSET ((1..Len(ResolveFontPaths(assets)))
                                         \X (1..Len(FallbackFamilies)))) :
          fonts' = EnsureRegistered(fonts, assets, refusedPairs)
    /\ UNCHANGED <<mapVars, exports, imageVars, assets>>

NextFonts == EnsureDefaultFontsRegistered

FontSpec == InitFonts /\ [][NextFonts]_vars

\* image.src = value
SetSrc(value) ==
    /\ Len(img.loads) < MaxAssignments
    /\ img' = [img EXCEPT !.src = StoreSrc(value), !.loads = Append(@, BeginLoad(value))]
    /\ UNCHANGED <<mapVars, exports, files, fontVars>>

\* fs.access(cleanPath) settles: the file is read next, or loadFromFile throws
Accessed(k) ==
    /\ k \in 1..Len(img.loads)
    /\ img.loads[k].stage = "access"
    /\ img' = IF img.loads[k].path \in files
              THEN [img EXCEPT !.loads[k].stage = "read"]
              ELSE RejectLoad(img, k, "Could not find image")
    /\ UNCHANGED <<mapVars, exports, files, fontVars>>

\* fs.readFile(cleanPath) settles, and with a buffer the rest of loadImage runs
ReadFile(k) ==
    /\ k \in 1..Len(img.loads)
    /\ img.loads[k].stage = "read"
    /\ \E ok \in BOOLEAN :
          img' = IF ok THEN FinishLoad(img, k) ELSE RejectLoad(img, k, "readFile")
    /\ UNCHANGED <<mapVars, exports, files, fontVars>>

\* fetch(url) settles, and with a buffer the rest of loadImage runs
Fetched(k) ==
    /\ k \in 1..Len(img.loads)
    /\ img.loads[k].stage = "fetch"
    /\ \E ok \in BOOLEAN :
          img' = IF ok THEN FinishLoad(img, k) ELSE RejectLoad(img, k, "Failed to fetch image")
    /\ UNCHANGED <<mapVars, exports, files, fontVars>>

\* the catch handler of the setter runs for a rejected loadImage
Caught(k) ==
    /\ k \in 1..Len(img.loads)
    /\ img.loads[k].stage = "rejected"
    /\ img' = CatchLoad(img, k)
    /\ UNCHANGED <<mapVars, exports, files, fontVars>>

NextImage ==
    \/ \E value \in Srcs : SetSrc(value)
    \/ \E k \in 1..MaxAssignments : Accessed(k)
    \/ \E k \in 1..MaxAssignments : ReadFile(k)
    \/ \E k \in 1..MaxAssignments : Fetched(k)
    \/ \E k \in 1..MaxAssignments : Caught(k)

ImageSpec == InitImage /\ [][NextImage]_vars

\* calls made through exportMap
NextExportMap ==
    \/ Next
    \/ \E r \in Renders : Then(r)
    \/ \E r \in Renders : Catch(r)

ExportSpec == InitExportMap /\ [][NextExportMap]_vars

(***************************************************************************)
(* What the claims speak of.                                               *)
(***************************************************************************)
ViewportSized(canvas, size) == canvas.width = size.x /\ canvas.height = size.y

Blends(st) == SelectSeq(st.ops, LAMBDA o : o.op = "blend")
BlendIds(st) == [j \in 1..Len(Blends(st)) |-> Blends(st)[j].id]
Blended(st, id) == \E j \in 1..Len(st.ops) : st.ops[j].op = "blend" /\ st.ops[j].id = id
Logged(st, what, id) == \E j \in 1..Len(st.log) : st.log[j] = [what |-> what, id |-> id]

\* the for loop over drawableElements ran to its end
LoopDone(st) ==
    \/ st.pc \in {"awaitOverlays", "resolved"}
    \/ st.pc = "rejected" /\ st.err = "latLngToLayerPoint"

\* a canvas with a surface, or an img with a source whose drawing did not fail
Drawn(st, id) ==
    \/ dom[id].tag = "canvas" /\ dom[id].napiCanvas.some
    \/ dom[id].tag = "img" /\ dom[id].src # "" /\ ~Logged(st, "failedToDraw", id)

\* neither a pre-rendered canvas surface nor an image
Unrecognized(element) ==
    /\ ~(element.tag = "canvas" /\ element.napiCanvas.some)
    /\ element.tag # "img"

\* C1: the canvas a call allocates has the size map.getSize() gives at the
\* call, and keeps it: the raster returned has exactly that width and height,
\* whatever the layers drawn onto it and whatever the viewport becomes.
C1_OutputHasViewportSize ==
    [][\A r \in Renders :
        /\ (rs[r].pc = "idle" /\ rs'[r].pc # "idle")
              => ViewportSized(rs'[r].canvas, viewport)
        /\ rs[r].pc # "idle" => rs'[r].canvas = rs[r].canvas]_vars

\* a returned raster over a layer drawn outside the viewport and larger than
\* it, after the viewport changed during the call
C1_Witness ==
    \E r \in Renders :
        /\ rs[r].pc = "resolved"
        /\ ~rs[r].tempCircle
        /\ ~ViewportSized(rs[r].canvas, viewport)
        /\ \E j \in 1..Len(rs[r].ops) :
              /\ rs[r].ops[j].op = "blend"
              /\ rs[r].ops[j].x + rs[r].ops[j].w < 0
              /\ rs[r].ops[j].w > rs[r].canvas.width

\* C2: the layers are blended in document order: of two blends of a render,
\* the earlier one is of the element that comes first in the container.
C2_BlendsInSceneOrder ==
    \A r \in Renders : \A a, b \in 1..Len(Blends(rs[r])) :
        a < b => Blends(rs[r])[a].id < Blends(rs[r])[b].id

\* an image that had to be awaited, blended before a canvas that was at hand
C2_Witness ==
    \E r \in Renders :
        /\ rs[r].pc = "resolved"
        /\ \E a, b \in 1..Len(Blends(rs[r])) :
              /\ a < b
              /\ dom[Blends(rs[r])[a].id].tag = "img"
              /\ dom[Blends(rs[r])[b].id].tag = "canvas"

\* C3: an image that fails to load or draw is logged and skipped; no call is
\* rejected because of an img element, and once the loop has run to its end
\* the blends are exactly the other drawable layers, in document order.
C3_ImageFailureSkipped ==
    \A r \in Renders :
        /\ rs[r].pc = "rejected" =>
              /\ rs[r].err \in {"emptyScene", "drawImage", "latLngToLayerPoint"}
              /\ rs[r].err = "drawImage" => dom[rs[r].errAt].tag = "canvas"
        /\ LoopDone(rs[r]) =>
              BlendIds(rs[r]) = SelectSeq(rs[r].drawableElements,
                                          LAMBDA id : Drawn(rs[r], id))

\* three layers, the second an image that failed: the first and third drawn
C3_Witness ==
    \E r \in Renders :
        /\ rs[r].pc = "resolved"
        /\ rs[r].drawableElements = <<1, 2, 3>>
        /\ Logged(rs[r], "failedToDraw", 2)
        /\ BlendIds(rs[r]) = <<1, 3>>

\* C4: when the calls of mapToCanvas do not overlap, an img element whose
\* loading never failed and that a call has drawn was fetched exactly once,
\* however many calls drew it.
C4_DecodeOnce ==
    ~overlap =>
        \A k \in 1..Len(dom) :
            (/\ dom[k].tag = "img"
             /\ \E r \in Renders : Blended(rs[r], k)
             /\ \A r \in Renders : ~Logged(rs[r], "failedToDraw", k))
                => fetches[k] = 1

\* two successive calls both drew the image, the second from the cache
C4_Witness ==
    /\ ~overlap
    /\ \E k \in 1..Len(dom) :
          /\ dom[k].tag = "img"
          /\ \A r \in Renders : rs[r].pc = "resolved" /\ Blended(rs[r], k)
          /\ fetches[k] = 1

C6_CircleRemovedWhenSettled ==
    \A r \in Renders :
        (rs[r].tempCircle /\ Settled(rs[r])) => r \notin circles

\* C7: a call that still finds nothing after adding the circle is rejected
\* with the empty-scene error, returns no raster, and has removed the circle.
C7_StillEmptyFails ==
    \A r \in Renders :
        (rs[r].tempCircle /\ rs[r].drawableElements = <<>>) =>
            /\ rs[r].pc = "rejected"
            /\ rs[r].err = "emptyScene"
            /\ rs[r].ops = <<>>
            /\ r \notin circles

\* a map that holds only panes and gets no canvas from the circle
C7_Witness ==
    \E r \in Renders :
        /\ rs[r].tempCircle
        /\ rs[r].drawableElements = <<>>
        /\ rs[r].pc = "rejected"
        /\ Len(dom) > 0

\* C8: within one call no layer is blended after a popup operation: all the
\* blends come before the first operation of drawPopupOverlays.
C8_PopupsOnTop ==
    \A r \in Renders : \A a, b \in 1..Len(rs[r].ops) :
        (a < b /\ IsCalloutOp(rs[r].ops[a])) => rs[r].ops[b].op # "blend"

\* two layers blended, then a popup painted
C8_Witness ==
    \E r \in Renders :
        /\ rs[r].pc = "resolved"
        /\ Len(Blends(rs[r])) >= 2
        /\ \E j \in 1..Len(rs[r].ops) : IsCalloutOp(rs[r].ops[j])

\* a popup of the map that measurePopupLayout can lay out
Anchored(id) == popupObjs[id].hasGetLatLng /\ popupObjs[id].latlng

\* C9 (as claimed): a popup without an anchor fails alone: once the layers
\* are composited every anchored popup of the map is painted, and the call
\* is not rejected because of a popup.
C9_PopupFailureIsolated ==
    \A r \in Renders :
        /\ rs[r].pc = "rejected" => rs[r].err # "latLngToLayerPoint"
        /\ rs[r].pc \in {"awaitOverlays", "resolved"} =>
              \A id \in 1..Len(popupObjs) :
                  (HasLayer(mapLayers, id) /\ Anchored(id)) =>
                      \E j \in 1..Len(rs[r].ops) :
                          rs[r].ops[j].op = "boxFill" /\ rs[r].ops[j].id = id

Failures(st) == {id \in 1..Len(dom) : Logged(st, "failedToDraw", id)}

\* C11: two calls that enumerated the same elements in the same order and in
\* which the same elements failed blended the same sequence: per element the
\* same raster at the same position with the same size, whether the image
\* was fetched by the call or taken from the element's cache.
C11_SameBlendsOnRepeat ==
    (/\ LoopDone(rs[1]) /\ LoopDone(rs[2])
     /\ rs[1].drawableElements = rs[2].drawableElements
     /\ Failures(rs[1]) = Failures(rs[2]))
        => Blends(rs[1]) = Blends(rs[2])

\* the first call fetched an image, the second took it from the cache, and
\* both blended it among other layers
C11_Witness ==
    /\ rs[1].pc = "resolved" /\ rs[2].pc = "resolved"
    /\ rs[1].drawableElements = rs[2].drawableElements
    /\ Len(Blends(rs[1])) >= 2
    /\ \E k \in 1..Len(dom) :
          /\ dom[k].tag = "img" /\ fetches[k] = 1
          /\ Blended(rs[1], k) /\ Blended(rs[2], k)

(***************************************************************************)
(* Popup text.                                                             *)
(***************************************************************************)
IsLetter(c) == c \in {"a", "b"}
IsSeparator(c) == c \in {"LF", "<br>"}
Letters(text) == SelectSeq(text, IsLetter)

RECURSIVE Concat(_)
Concat(lines) == IF lines = <<>> THEN <<>> ELSE Head(lines) \o Concat(Tail(lines))

\* the positions of html where a line with text begins: a letter with a
\* separator between it and every letter before it
LineStarts(html) ==
    {k \in 1..Len(html) :
        /\ IsLetter(html[k])
        /\ \A j \in 1..(k - 1) :
              IsLetter(html[j]) => \E m \in (j + 1)..(k - 1) : IsSeparator(html[m])}

NonEmpty(lines) == SelectSeq(lines, LAMBDA line : line # <<>>)

\* the layouts measured so far, by any call
Layouts == UNION {{rs[r].layouts[j] : j \in 1..Len(rs[r].layouts)} : r \in Renders}

\* C12: the lines of a popup are never an empty list (one empty line for a
\* missing or empty content); every line is text only, without whitespace
\* at its start or end; no two adjacent lines are both empty; every <br> and
\* every newline separates lines, so a line with text begins after each; and
\* the text keeps the order of the content.
C12_NormalisedLines ==
    \A layout \in Layouts :
        LET lines == layout.contentLines
            node == popupObjs[layout.id].contentNode
        IN  /\ Len(lines) >= 1
            /\ (~node.some \/ node.innerHTML = <<>>) => lines = << <<>> >>
            /\ \A k \in 1..Len(lines) :
                  /\ \A j \in 1..Len(lines[k]) : lines[k][j] \in {"a", "b", " "}
                  /\ lines[k] # <<>> =>
                        lines[k][1] # " " /\ lines[k][Len(lines[k])] # " "
            /\ \A k \in 1..(Len(lines) - 1) : ~(lines[k] = <<>> /\ lines[k + 1] = <<>>)
            /\ Len(NonEmpty(lines)) = Cardinality(LineStarts(node.innerHTML))
            /\ Letters(Concat(lines)) = Letters(node.innerHTML)

\* a returned raster with a popup whose content held a <br>, lost an empty
\* line to the collapsing, and kept a line of text
C12_Witness ==
    \E r \in Renders :
        /\ rs[r].pc = "resolved"
        /\ \E j \in 1..Len(rs[r].layouts) :
              LET lines == rs[r].layouts[j].contentLines
                  html == popupObjs[rs[r].layouts[j].id].contentNode.innerHTML
              IN  /\ \E k \in 1..Len(html) : html[k] = "<br>"
                  /\ Len(lines) < 1 + Len(SelectSeq(html, IsSeparator))
                  /\ NonEmpty(lines) # <<>>

(***************************************************************************)
(* Popup layout.                                                           *)
(***************************************************************************)
\* the greatest of a finite non-empty set of numbers
Greatest(S) == CHOOSE m \in S : \A n \in S : n <= m

\* the widths a popup's content asks for: 0, the measured width of every
\* line, and style.width when it is a number
AskedWidths(layout) ==
    {0} \cup {layout.measuredWidths[k] : k \in 1..Len(layout.measuredWidths)}
        \cup (IF IsFinite(layout.explicitWidth) THEN {layout.explicitWidth.n} ELSE {})

\* C13: the width of a popup's box is the greater of the minimum box width
\* (40) and W + padding.left + padding.right, where W is the greatest of 0,
\* the measured width of every line and the explicit content width when one
\* is set; it is never below that minimum.
C13_BoxWidth ==
    \A layout \in Layouts :
        LET node == popupObjs[layout.id].contentNode
            padded == Greatest(AskedWidths(layout)) + 20 + 24
        IN  /\ layout.explicitWidth = ExplicitWidth(node)
            /\ \A k \in 1..Len(layout.contentLines) :
                  layout.measuredWidths[k] = MeasureText(layout.contentLines[k])
            /\ layout.width = IF padded >= 40 THEN padded ELSE 40
            /\ layout.width >= 40

\* a returned raster with a popup of two lines whose first line is wider
\* than its style.width
C13_Witness ==
    \E r \in Renders :
        /\ rs[r].pc = "resolved"
        /\ \E j \in 1..Len(rs[r].layouts) :
              LET layout == rs[r].layouts[j]
              IN  /\ Len(layout.contentLines) = 2
                  /\ IsFinite(layout.explicitWidth)
                  /\ layout.measuredWidths[1] > layout.explicitWidth.n
                  /\ layout.width = layout.measuredWidths[1] + 44

\* the measured widths with line k wider by d
Widened(measuredWidths, k, d) == [measuredWidths EXCEPT ![k] = @ + d]

\* the box width of a layout's content once line k measures d more
WidenedBoxWidth(layout, k, d) ==
    BoxWidth(ContentWidth(Widened(layout.measuredWidths, k, d), layout.explicitWidth))

\* C14 as stated: making any one line measure d > 0 more makes the box
\* exactly d wider.
C14_AnyLineWidensBox ==
    \A layout \in Layouts :
        \A k \in 1..Len(layout.measuredWidths), d \in 1..MaxDelta :
            WidenedBoxWidth(layout, k, d) = layout.width + d

\* C14: making one line measure d > 0 more never narrows the box and widens
\* it by at most d: by exactly d when that line is as wide as every width
\* the content asks for, and not at all when another of those widths is at
\* least d greater than the line's.
C14_WidestLineWidensBox ==
    \A layout \in Layouts :
        \A k \in 1..Len(layout.measuredWidths), d \in 1..MaxDelta :
            LET mine == layout.measuredWidths[k]
                wider == WidenedBoxWidth(layout, k, d)
            IN  /\ wider >= layout.width
                /\ wider <= layout.width + d
                /\ mine = Greatest(AskedWidths(layout)) => wider = layout.width + d
                /\ Greatest(AskedWidths(layout)) >= mine + d => wider = layout.width

\* a returned raster with a popup of two lines of different widths
C14_Witness ==
    \E r \in Renders :
        /\ rs[r].pc = "resolved"
        /\ \E j \in 1..Len(rs[r].layouts) :
              LET layout == rs[r].layouts[j]
              IN  /\ Len(layout.measuredWidths) = 2
                  /\ layout.measuredWidths[1] >= layout.measuredWidths[2] + MaxDelta
                  /\ ~IsFinite(layout.explicitWidth)

\* C15: the height of a popup's box is lineCount * lineHeight + padding.top
\* + padding.bottom with lineCount >= 1 and a line height that does not
\* depend on the content; one more line makes the box exactly one line
\* height higher.
C15_BoxHeight ==
    \A layout \in Layouts :
        LET lineCount == Len(layout.contentLines)
        IN  /\ lineCount >= 1
            /\ layout.lineHeight = 19
            /\ layout.height = lineCount * layout.lineHeight + 13 + 13
            /\ BoxHeight(lineCount + 1) = layout.height + layout.lineHeight

\* returned rasters of a popup of three lines
C15_Witness ==
    \A r \in Renders :
        /\ rs[r].pc = "resolved"
        /\ Len(rs[r].layouts) = 1
        /\ Len(rs[r].layouts[1].contentLines) = 3

\* the screen anchor of a popup: its projected position plus the anchor of
\* its source layer plus options.offset, a missing one counting as (0, 0)
ScreenAnchor(popup) ==
    [x |-> popup.point.x + (IF popup.anchor.some THEN popup.anchor.x ELSE 0)
                         + (IF popup.offset.some THEN popup.offset.x ELSE 0),
     y |-> popup.point.y + (IF popup.anchor.some THEN popup.anchor.y ELSE 0)
                         + (IF popup.offset.some THEN popup.offset.y ELSE 0)]

\* C16: with (ax, ay) the screen anchor, boxLeft = ax - boxWidth / 2 (here
\* doubled) and boxTop = size.y - ay - (boxHeight + tipSize), size being the
\* viewport read at the call.
C16_BoxPosition ==
    \A r \in Renders : \A j \in 1..Len(rs[r].layouts) :
        LET layout == rs[r].layouts[j]
            a == ScreenAnchor(popupObjs[layout.id])
        IN  /\ layout.left2 = 2 * a.x - layout.width
            /\ layout.top = rs[r].size.y - a.y - (layout.height + 12)

\* a returned raster with a popup that has an anchor and no offset, drawn
\* while the viewport was resized
C16_Witness ==
    \E r \in Renders :
        /\ rs[r].pc = "resolved"
        /\ rs[r].size # viewport
        /\ \E j \in 1..Len(rs[r].layouts) :
              LET popup == popupObjs[rs[r].layouts[j].id]
              IN  popup.anchor.some /\ ~popup.offset.some

\* the screen anchor lies inside the viewport read at the call
AnchorInside(popup, size) ==
    LET a == ScreenAnchor(popup)
    IN  0 <= a.x /\ a.x <= size.x /\ 0 <= a.y /\ a.y <= size.y

\* C17 as stated: a popup whose screen anchor (ax, ay) lies inside the
\* viewport has its box above the anchor and the end of its tail at it:
\* boxTop + boxHeight <= ay and boxTop + boxHeight + tipSize = ay.
C17_BoxAboveAnchor ==
    \A r \in Renders : \A j \in 1..Len(rs[r].layouts) :
        LET layout == rs[r].layouts[j]
            popup == popupObjs[layout.id]
        IN  AnchorInside(popup, rs[r].size) =>
                /\ layout.top + layout.height <= ScreenAnchor(popup).y
                /\ layout.top + layout.height + layout.tipSize = ScreenAnchor(popup).y

(***************************************************************************)
(* Popup painting.                                                         *)
(***************************************************************************)
\* the operations a call drew for popup id, in the order drawn
CalloutOps(st, id) == SelectSeq(st.ops, LAMBDA o : IsCalloutOp(o) /\ o.id = id)

\* C18 as stated: the lowest vertex of the painted tip is at the horizontal
\* centre of the box (x doubled: 2 * boxLeft + boxWidth) and exactly tipSize
\* below the bottom edge of the box, the depth the layout reserved.
C18_TipWithinReservedDepth ==
    \A r \in Renders : \A j \in 1..Len(rs[r].layouts) :
        LET layout == rs[r].layouts[j]
            drawn == CalloutOps(rs[r], layout.id)
        IN  \A k \in 1..Len(drawn) :
                drawn[k].op \in {"tipFill", "tipStroke"} =>
                    /\ drawn[k].x = layout.left2 + layout.width
                    /\ drawn[k].y = layout.top + layout.height + layout.tipSize

\* C19: the operations of a painted popup are, in this order, the box fill,
\* the tip fill, the tip stroke, the box outline stroke and one fillText per
\* line in the order of the lines; the shadow is set for the box fill and
\* for no other operation.
C19_PaintOrder ==
    \A r \in Renders : \A j \in 1..Len(rs[r].layouts) :
        LET layout == rs[r].layouts[j]
            drawn == CalloutOps(rs[r], layout.id)
            lineCount == Len(layout.contentLines)
        IN  /\ Len(drawn) = 4 + lineCount
            /\ drawn[1].op = "boxFill" /\ drawn[2].op = "tipFill"
            /\ drawn[3].op = "tipStroke" /\ drawn[4].op = "boxStroke"
            /\ \A k \in 1..lineCount :
                  drawn[4 + k].op = "fillText" /\ drawn[4 + k].line = k
            /\ \A k \in 1..Len(drawn) : drawn[k].shadow <=> k = 1

\* a returned raster with the tile and, on it, a popup of three lines
C19_Witness ==
    \E r \in Renders :
        /\ rs[r].pc = "resolved"
        /\ Blended(rs[r], 1)
        /\ Len(rs[r].layouts) = 1
        /\ Len(CalloutOps(rs[r], 1)) = 7

(***************************************************************************)
(* Draw position.                                                          *)
(***************************************************************************)
\* a style offset that parses to a finite number: a length in px or digits
ParsesFinite(style) == style.k \in {"px", "digits"}

\* the coordinate the claim gives for a style offset and a DOM offset
ClaimedCoordinate(style, offset) ==
    IF ParsesFinite(style) THEN style.n
    ELSE IF ~offset.nan THEN offset.n
    ELSE 0

\* C20: an element is blended at x = style.left when that parses to a finite
\* number (0 included), else offsetLeft when that is finite, else 0; and at
\* y likewise from style.top and offsetTop.
C20_DrawPosition ==
    \A r \in Renders : \A j \in 1..Len(rs[r].ops) :
        LET o == rs[r].ops[j]
        IN  o.op = "blend" =>
                /\ o.x = ClaimedCoordinate(dom[o.id].styleLeft, dom[o.id].offsetLeft)
                /\ o.y = ClaimedCoordinate(dom[o.id].styleTop, dom[o.id].offsetTop)

\* a returned raster whose element had style.left "0px" over an offsetLeft
\* of 7 and a style.top of "auto" over an offsetTop of 7
C20_Witness ==
    \E r \in Renders :
        /\ rs[r].pc = "resolved"
        /\ dom[1].styleLeft = Px(0) /\ dom[1].offsetLeft = Num(7)
        /\ dom[1].styleTop = Auto /\ dom[1].offsetTop = Num(7)
        /\ \E j \in 1..Len(rs[r].ops) :
              rs[r].ops[j].op = "blend" /\ rs[r].ops[j].x = 0 /\ rs[r].ops[j].y = 7

(***************************************************************************)
(* Draw size.                                                              *)
(***************************************************************************)
\* the raster an element resolves to: the surface of a canvas, the decoded
\* image of an img
ResolvedRaster(element) ==
    IF element.tag = "canvas" THEN element.napiCanvas ELSE Decode(element.src)

\* the extent the claim gives: the element's own (its property, else its
\* attribute) when it defines one, else the natural extent of the raster
ClaimedExtent(property, attribute, natural) ==
    IF property # 0 THEN property
    ELSE IF attribute.k = "digits" /\ attribute.n # 0 THEN attribute.n
    ELSE natural

\* C21 as stated: an element of either kind is blended with its own width
\* when it defines one, else with the natural width of its raster, and
\* likewise for the height.
C21_DrawSize ==
    \A r \in Renders : \A j \in 1..Len(rs[r].ops) :
        LET o == rs[r].ops[j]
            element == dom[o.id]
            raster == ResolvedRaster(element)
        IN  o.op = "blend" =>
                /\ o.w = ClaimedExtent(element.width, element.attrWidth, raster.w)
                /\ o.h = ClaimedExtent(element.height, element.attrHeight, raster.h)

(***************************************************************************)
(* exportMap.                                                              *)
(***************************************************************************)
\* C22: the callback of exportMap is not invoked before mapToCanvas has
\* settled; when mapToCanvas resolved, the callback was invoked with no
\* error and the canvas of the size the viewport had at the call; when it
\* rejected, the callback was invoked with that error and no canvas.
C22_CallbackAfterSettled ==
    \A r \in Renders :
        LET e == exports[r]
            st == rs[r]
        IN  /\ ~Settled(st) => e.calls = <<>>
            /\ (st.pc = "resolved" /\ e.stage # "then") =>
                  /\ Len(e.calls) >= 1
                  /\ e.calls[1] = [err |-> "", some |-> TRUE,
                                   canvas |-> [width |-> st.size.x, height |-> st.size.y]]
            /\ (st.pc = "rejected" /\ e.stage = "done") =>
                  /\ Len(e.calls) >= 1
                  /\ \A k \in 1..Len(e.calls) :
                        e.calls[k].err = st.err /\ ~e.calls[k].some

\* the first export has reported the error of an empty scene, the second
\* has handed over its canvas while the viewport differs from the one it
\* was called with
C22_Witness ==
    /\ rs[1].pc = "rejected" /\ rs[2].pc = "resolved"
    /\ exports[1].stage = "done" /\ exports[2].stage = "done"
    /\ rs[2].size # viewport
    /\ Len(exports[1].calls) = 1 /\ exports[1].calls[1].err = rs[1].err
    /\ Len(exports[2].calls) = 1 /\ exports[2].calls[1].some

\* C24 as stated: the callback of exportMap is invoked at most once per
\* call, and exactly once when the promise chain has run to its end, also
\* when the callback throws.
C24_CallbackOnce ==
    \A r \in Renders :
        /\ Len(exports[r].calls) <= 1
        /\ (exports[r].callback # "none" /\ exports[r].stage = "done") =>
              Len(exports[r].calls) = 1

(***************************************************************************)
(* HeadlessImage.                                                          *)
(***************************************************************************)
\* the file a local src names: its path, whatever stands before and after
LocalFile(src) == SelectSeq(src, LAMBDA part : part \in PathNames)

IsLocal(src) == ~StartsWith(src, "http://")

\* the calls of handler made for the k-th assignment
HandlerCalls(handler, k) ==
    SelectSeq(img.events, LAMBDA e : e.handler = handler /\ e.load = k)

\* C23: for a src that is a local path, plain or with file://, whose file
\* (the path without query string) does not exist, onload is never called,
\* and once the load has been dealt with onerror, if set, was called once
\* with 'Could not find image'; the src getter returns the string assigned.
C23_MissingFileReported ==
    /\ \A k \in 1..Len(img.loads) :
          LET load == img.loads[k]
          IN  (IsLocal(load.src) /\ LocalFile(load.src) \notin files) =>
                  /\ HandlerCalls("onload", k) = <<>>
                  /\ (load.stage = "done" /\ img.onerror # "unset") =>
                        /\ Len(HandlerCalls("onerror", k)) = 1
                        /\ HandlerCalls("onerror", k)[1].err = "Could not find image"
    /\ Len(img.loads) > 0 => img.src = img.loads[Len(img.loads)].src

\* a file:// src with a query string whose file is missing was reported to
\* onerror, and src still reads as assigned
C23_Witness ==
    /\ Len(img.loads) = 1
    /\ img.loads[1].src = <<"file://", "/b.png", "?", "v=1">>
    /\ img.src = <<"file://", "/b.png", "?", "v=1">>
    /\ <<"/a.png">> \in files /\ <<"/b.png">> \notin files
    /\ img.loads[1].stage = "done"
    /\ Len(HandlerCalls("onerror", 1)) = 1

\* C28 as stated: for every assignment to src whose load has been dealt
\* with, onload and onerror were not both called, and the one that applies
\* (onload after a success, onerror after a failure) was called exactly once
\* when it is set, also when onload throws.
C28_OneHandlerPerAssignment ==
    \A k \in 1..Len(img.loads) :
        LET loaded == Len(HandlerCalls("onload", k))
            failed == Len(HandlerCalls("onerror", k))
        IN  /\ loaded + failed <= 1
            /\ (img.loads[k].stage = "fulfilled" /\ img.onload # "unset") => loaded = 1
            /\ (img.loads[k].stage = "done" /\ img.onerror # "unset") => loaded + failed = 1

(***************************************************************************)
(* The image cache of the elements.                                        *)
(***************************************************************************)
\* C25 as stated: also when calls of mapToCanvas overlap, an img element
\* whose loading did not fail is fetched at most once in total; each call
\* draws on the canvas it created for itself.
C25_OverlapDecodeOnce ==
    overlap =>
        \A k \in 1..Len(dom) :
            (/\ dom[k].tag = "img"
             /\ \A r \in Renders : ~Logged(rs[r], "failedToDraw", k))
                => fetches[k] <= 1

\* C26 as stated: whenever a call blends an img element, the raster it
\* blends was decoded from the src the element has at that moment.
C26_BlendsCurrentSrc ==
    [][\A r \in Renders :
        \A j \in (Len(rs[r].ops) + 1)..Len(rs'[r].ops) :
            LET o == rs'[r].ops[j]
            IN  (o.op = "blend" /\ dom[o.id].tag = "img") => o.from = dom[o.id].src]_vars

(***************************************************************************)
(* Which popups are painted.                                               *)
(***************************************************************************)
\* how often a call has painted popup id
TimesPainted(st, id) ==
    Len(SelectSeq(st.ops, LAMBDA o : o.op = "boxFill" /\ o.id = id))

\* the ids of the popups a call has painted, in the order painted
PaintedIds(st) ==
    LET fills == SelectSeq(st.ops, LAMBDA o : o.op = "boxFill")
    IN  [j \in 1..Len(fills) |-> fills[j].id]

\* C27 as stated: once a call has run drawPopupOverlays, every popup (an
\* object with getLatLng) that is a layer of the map is painted exactly
\* once, map._popup first when it is one of them, and a popup that is not
\* a layer of the map is not painted.
C27_AttachedPopupsPaintedOnce ==
    \A r \in Renders :
        LoopDone(rs[r]) =>
            /\ \A id \in 1..Len(popupObjs) :
                  TimesPainted(rs[r], id) =
                      IF HasLayer(mapLayers, id) /\ popupObjs[id].hasGetLatLng THEN 1 ELSE 0
            /\ (/\ mapPopup # 0 /\ HasLayer(mapLayers, mapPopup)
                /\ popupObjs[mapPopup].hasGetLatLng)
                  => PaintedIds(rs[r])[1] = mapPopup

(***************************************************************************)
(* Fonts.                                                                  *)
(***************************************************************************)
\* the calls of registerFromPath made so far
Offers == {fonts.offers[j] : j \in 1..Len(fonts.offers)}

\* C29: ensureDefaultFontsRegistered works at most once per process: the
\* system fonts are loaded and the font paths resolved at most once, and
\* every registration is offered by the first call, whatever that call
\* found and however its registrations ended; the registered keys are the
\* pairs registerFromPath accepted; and every resolved path was offered to
\* each of the four fallback families.
C29_FontsRegisteredOnce ==
    /\ fonts.systemLoads <= 1
    /\ fonts.resolves <= 1
    /\ fonts.calls >= 1 => fonts.fontsRegistered /\ fonts.resolves = 1
    /\ \A offer \in Offers : offer.call = 1
    /\ fonts.registeredFonts =
          {[family |-> offer.family, path |-> offer.path] :
              offer \in {o \in Offers : o.outcome = "registered"}}
    /\ fonts.calls >= 1 =>
          \A p \in 1..Len(fonts.resolved) :
              \A family \in {"LeafletNode Sans", "Helvetica Neue", "Helvetica", "Arial"} :
                  Cardinality({o \in Offers : o.path = fonts.resolved[p] /\ o.family = family}) = 1

\* after several calls: two font files were resolved, some of their
\* registrations were accepted and some were not
C29_Witness ==
    /\ fonts.calls = MaxCalls
    /\ Len(fonts.resolved) = 2
    /\ Len(fonts.offers) = 8
    /\ fonts.registeredFonts # {}
    /\ Cardinality(fonts.registeredFonts) < 8

====
